---- MODULE Spec2Model ----
(***************************************************************************)
(* The provider-aggregation layer of the ckETH minter:                     *)
(* rs/ethereum/cketh/minter/src/eth_rpc_client/mod.rs.                     *)
(*                                                                         *)
(*   EthRpcClient          the two dispatch strategies and the facade      *)
(*   MultiCallResults      the outcome set and its reconciliation          *)
(*                                                                         *)
(* Spec           one client running facade operations against providers   *)
(*                whose calls complete in any order.                       *)
(* SpecReconcile  the reconciliation functions applied to every non-empty  *)
(*                outcome set over a bounded universe of providers.        *)
(* SpecLive       Spec where every outcall completes and the operation     *)
(*                takes its own steps.                                     *)
(* SpecBuild      the same functions applied to outcome sets built by      *)
(*                from_non_empty_iter from the pairs in every order.       *)
(***************************************************************************)
EXTENDS Integers, Sequences, FiniteSets, TLC

VARIABLES
    provider_lists, \* the provider list the directory holds for each network
    chain,        \* EthRpcClient.chain
    calls,        \* how many facade operations have been called on the client
    pc,           \* position of the running operation
    op,           \* the operation that is running, or "none"
    idx,          \* position of the `for provider in self.providers()` loop
    last_result,  \* sequential_call_until_ok: last_result
    fut,          \* parallel_call: the futures pushed so far, then their outputs
    completed,    \* positions of fut in the order their calls completed
    invoked,      \* providers in the order eth_rpc::call was invoked on them
    world,        \* what each provider answers to the call of this operation
    results,      \* the MultiCallResults under reconciliation
    extractor,    \* the key extractor handed to reduce_with_min_by_key
    verdict       \* what the operation returned

vars == <<provider_lists, chain, calls, pc, op, idx, last_result, fut, completed, invoked, world,
          results, extractor, verdict>>

-----------------------------------------------------------------------------
(* Bounds of the model. *)

\* Success payloads are the opaque, equality-comparable values 1..MaxValue.
MaxValue == 3

\* SpecReconcile builds outcome sets over the provider identifiers 1..MaxProviders.
MaxProviders == 3

\* Spec calls up to MaxCalls facade operations on one client.
MaxCalls == 2

\* SpecBuild inserts the outcomes of the providers 1..MaxInserted in every order.
MaxInserted == 2

-----------------------------------------------------------------------------
(* Values. *)

None == [tag |-> "None"]

Some(x) == [tag |-> "Some", some |-> x]

Values == 1 .. MaxValue

\* HttpOutcallResult<JsonRpcResult<T>>: Ok(JsonRpcResult::Result(value))
OkResult(value) == [tag |-> "Result", value |-> value]

\* HttpOutcallResult<JsonRpcResult<T>>: Ok(JsonRpcResult::Error { code, message })
OkError(code, message) == [tag |-> "Error", code |-> code, message |-> message]

\* HttpOutcallResult<JsonRpcResult<T>>: Err(HttpOutcallError)
ErrOutcall(error) == [tag |-> "HttpOutcallError", error |-> error]

JsonRpcErrors ==
    {OkError(-32000, "x"), OkError(-32000, "y"), OkError(-32001, "x")}

HttpOutcallErrors == {ErrOutcall("timeout"), ErrOutcall("rejected")}

\* Every outcome eth_rpc::call can hand back for one provider.
Outcomes == {OkResult(v) : v \in Values} \cup JsonRpcErrors \cup HttpOutcallErrors

IsSuccess(result) == result.tag = "Result"

Networks == {"Mainnet", "Sepolia"}

\* The provider directory. RpcNodeProvider is totally ordered (it keys a
\* BTreeMap); identifiers are integers and their order is the integers' order.
MAINNET_PROVIDERS == <<1, 2, 3>>

\* A directory need not list its providers in the order of their identifiers.
SEPOLIA_PROVIDERS == <<5, 4>>

\* The directory is static configuration: the lists above, or no provider at
\* all, which sequential_call_until_ok and from_non_empty_iter provide for.
ProviderLists ==
    {[Mainnet |-> MAINNET_PROVIDERS, Sepolia |-> SEPOLIA_PROVIDERS],
     [Mainnet |-> << >>, Sepolia |-> << >>]}

\* providers with the list of Mainnet whatever the network of the client.
providers_of_mainnet(self_chain) == provider_lists.Mainnet

providers(self_chain) ==
    IF self_chain = "Mainnet" THEN provider_lists.Mainnet
    ELSE provider_lists.Sepolia

Range(s) == {s[i] : i \in DOMAIN s}

\* How many times x occurs in the sequence s.
Count(s, x) == Cardinality({i \in DOMAIN s : s[i] = x})

-----------------------------------------------------------------------------
(* BTreeMap<RpcNodeProvider, _>: a function on a finite set of providers. *)

EmptyMap == << >>

Insert(map, key, value) ==
    [k \in DOMAIN map \cup {key} |-> IF k = key THEN value ELSE map[k]]

\* BTreeMap::from_iter: pairs are inserted in the order of the iterator, a later
\* pair replacing an earlier one with the same key.
RECURSIVE FromIterInto(_, _)
FromIterInto(map, iter) ==
    IF iter = << >> THEN map
    ELSE FromIterInto(Insert(map, Head(iter)[1], Head(iter)[2]), Tail(iter))

BTreeMapFromIter(iter) == FromIterInto(EmptyMap, iter)

Min(S) == CHOOSE x \in S : \A y \in S : x <= y

\* IntoIter of a map that iterates in the order of insertion.
IntoIter_insertion_order(map) ==
    LET Present(p) == p \in DOMAIN map
        order == SelectSeq(invoked, Present)
    IN  [i \in DOMAIN order |-> <<order[i], map[order[i]]>>]

\* BTreeMap::into_iter: the pairs in ascending order of key.
RECURSIVE IntoIter(_)
IntoIter(map) ==
    IF DOMAIN map = {} THEN << >>
    ELSE LET k == Min(DOMAIN map)
             rest == [x \in DOMAIN map \ {k} |-> map[x]]
         IN  <<<<k, map[k]>>>> \o IntoIter(rest)

\* Iterator::zip: pairs up to the shorter of the two.
Zip(xs, ys) ==
    LET n == IF Len(xs) <= Len(ys) THEN Len(xs) ELSE Len(ys)
    IN  [i \in 1 .. n |-> <<xs[i], ys[i]>>]

-----------------------------------------------------------------------------
(* MultiCallResults and MultiCallError. *)

Panic(message) == [tag |-> "panic", message |-> message]

IsPanic(x) == x.tag = "panic"

MultiCallResults(map) == [tag |-> "MultiCallResults", results |-> map]

\* from_non_empty_iter without the check that the map is not empty.
from_iter_unchecked(iter) == MultiCallResults(BTreeMapFromIter(iter))

from_non_empty_iter(iter) ==
    LET map == BTreeMapFromIter(iter)
    IN  IF DOMAIN map = {}
        THEN Panic("BUG: MultiCallResults cannot be empty!")
        ELSE MultiCallResults(map)

ConsistentHttpOutcallError(error) ==
    [tag |-> "ConsistentHttpOutcallError", error |-> error]

ConsistentJsonRpcError(code, message) ==
    [tag |-> "ConsistentJsonRpcError", code |-> code, message |-> message]

InconsistentResults(multi_call_results) ==
    [tag |-> "InconsistentResults", results |-> multi_call_results.results]

\* Ok(value) of a Result<T, MultiCallError<T>>
Ok(value) == [tag |-> "Ok", value |-> value]

\* Ok(map) of all_ok's Result<BTreeMap<RpcNodeProvider, T>, MultiCallError<T>>
OkMap(map) == [tag |-> "OkMap", values |-> map]

\* eth_rpc::are_errors_consistent: two outcomes are consistent when either is a
\* success or when they are the same JSON-RPC error (code and message) or the
\* same transport failure.
are_errors_consistent(left, right) ==
    \/ IsSuccess(left)
    \/ IsSuccess(right)
    \/ left = right

-----------------------------------------------------------------------------
(* MultiCallResults::all_ok *)

\* all_ok_finish with the successes accepted as soon as there is one, whatever
\* the other providers returned.
all_ok_finish_any_success(results_map, first_error) ==
    IF first_error = None \/ results_map # EmptyMap THEN OkMap(results_map)
    ELSE LET error == first_error.some[2]
         IN  IF error.tag = "Error"
             THEN ConsistentJsonRpcError(error.code, error.message)
             ELSE ConsistentHttpOutcallError(error.error)

\* all_ok_finish with the message of a JSON-RPC error left out.
all_ok_finish_no_message(results_map, first_error) ==
    IF first_error = None THEN OkMap(results_map)
    ELSE LET error == first_error.some[2]
         IN  IF error.tag = "Error"
             THEN ConsistentJsonRpcError(error.code, "")
             ELSE ConsistentHttpOutcallError(error.error)

\* The final `match first_error` of all_ok.
all_ok_finish(results_map, first_error) ==
    IF first_error = None THEN OkMap(results_map)
    ELSE LET error == first_error.some[2]
         IN  IF error.tag = "Error"
             THEN ConsistentJsonRpcError(error.code, error.message)
             ELSE IF error.tag = "HttpOutcallError"
             THEN ConsistentHttpOutcallError(error.error)
             ELSE Panic("BUG: first_error should be an error type")

\* all_ok_loop with a success that follows the first error reported as
\* inconsistent with it.
RECURSIVE all_ok_loop_success_checked(_, _, _)
all_ok_loop_success_checked(iter, results_map, first_error) ==
    IF iter = << >> THEN all_ok_finish(results_map, first_error)
    ELSE LET provider == Head(iter)[1]
             result == Head(iter)[2]
         IN  IF first_error = None
             THEN IF IsSuccess(result)
                  THEN all_ok_loop_success_checked(
                           Tail(iter), Insert(results_map, provider, result.value),
                           first_error)
                  ELSE all_ok_loop_success_checked(
                           Tail(iter), results_map, Some(<<provider, result>>))
             ELSE IF result # first_error.some[2]
             THEN InconsistentResults(
                      from_non_empty_iter(<<first_error.some, <<provider, result>>>>))
             ELSE all_ok_loop_success_checked(Tail(iter), results_map, first_error)

\* The loop of all_ok over self.results.into_iter(), with its early return.
RECURSIVE all_ok_loop(_, _, _)
all_ok_loop(iter, results_map, first_error) ==
    IF iter = << >> THEN all_ok_finish(results_map, first_error)
    ELSE LET provider == Head(iter)[1]
             result == Head(iter)[2]
         IN  IF IsSuccess(result)
             THEN all_ok_loop(Tail(iter), Insert(results_map, provider, result.value),
                              first_error)
             ELSE IF first_error = None
             THEN all_ok_loop(Tail(iter), results_map, Some(<<provider, result>>))
             ELSE IF ~are_errors_consistent(first_error.some[2], result)
             THEN InconsistentResults(
                      from_non_empty_iter(<<first_error.some, <<provider, result>>>>))
             ELSE all_ok_loop(Tail(iter), results_map, first_error)

\* The successes of an outcome set, as all_ok collects them.
SuccessValues(map) ==
    [p \in {q \in DOMAIN map : IsSuccess(map[q])} |-> map[p].value]

\* The non-success pairs of an outcome set, in ascending order of provider.
NonSuccessPairs(map) ==
    LET NonSuccess(pair) == ~IsSuccess(pair[2])
    IN  SelectSeq(IntoIter(map), NonSuccess)

\* all_ok without the comparison of later errors with the first one.
all_ok_unchecked(self) ==
    LET errors == NonSuccessPairs(self.results)
    IN  all_ok_finish(SuccessValues(self.results),
                      IF errors = << >> THEN None ELSE Some(errors[1]))

\* all_ok comparing the kind of a later error with the first one, not its
\* content.
all_ok_kind_only(self) ==
    LET errors == NonSuccessPairs(self.results)
        other == {i \in DOMAIN errors : errors[i][2].tag # errors[1][2].tag}
    IN  IF other # {}
        THEN InconsistentResults(
                 from_non_empty_iter(<<errors[1], errors[Min(other)]>>))
        ELSE all_ok_finish(SuccessValues(self.results),
                           IF errors = << >> THEN None ELSE Some(errors[1]))

\* all_ok with the whole outcome set as the evidence of an inconsistency.
all_ok_full_evidence(self) ==
    LET errors == NonSuccessPairs(self.results)
        other == {i \in DOMAIN errors : errors[i][2] # errors[1][2]}
    IN  IF other # {}
        THEN InconsistentResults(self)
        ELSE all_ok_finish(SuccessValues(self.results),
                           IF errors = << >> THEN None ELSE Some(errors[1]))

all_ok(self) == all_ok_loop(IntoIter(self.results), EmptyMap, None)

-----------------------------------------------------------------------------
(* MultiCallResults::reduce_with_equality *)

\* inconsistent_results comparing only the provider next to the base.
inconsistent_results_next_only(rest, base_result) ==
    LET Differs(pair) == pair[2] # base_result
    IN  SelectSeq(SubSeq(rest, 1, IF rest = << >> THEN 0 ELSE 1), Differs)

\* inconsistent_results with the comparison inverted.
inconsistent_results_equal(rest, base_result) ==
    LET Same(pair) == pair[2] = base_result
    IN  SelectSeq(rest, Same)

\* inconsistent_results without the filter: every other provider is kept.
inconsistent_results_all(rest, base_result) == rest

\* results.filter(|(_provider, result)| result != &base_result).collect()
inconsistent_results(rest, base_result) ==
    LET Differs(pair) == pair[2] # base_result
    IN  SelectSeq(rest, Differs)

\* inconsistent_error without the push of the base.
inconsistent_error_no_base(inconsistent, base) ==
    LET wrapped ==
            [i \in DOMAIN inconsistent |->
                <<inconsistent[i][1], OkResult(inconsistent[i][2])>>]
    IN  InconsistentResults(from_non_empty_iter(wrapped))

\* inconsistent_error with every pair wrapped again around the value of the
\* base.
inconsistent_error_base_value(inconsistent, base) ==
    LET pushed == Append(inconsistent, base)
        wrapped == [i \in DOMAIN pushed |-> <<pushed[i][1], OkResult(base[2])>>]
    IN  InconsistentResults(from_non_empty_iter(wrapped))

\* The error built from a non-empty inconsistent_results: the base is pushed
\* last and every value is wrapped again as Ok(JsonRpcResult::Result(_)).
inconsistent_error(inconsistent, base) ==
    LET pushed == Append(inconsistent, base)
        wrapped == [i \in DOMAIN pushed |-> <<pushed[i][1], OkResult(pushed[i][2])>>]
    IN  InconsistentResults(from_non_empty_iter(wrapped))

\* reduce_with_equality over the providers that succeeded, the others left
\* out.
reduce_with_equality_of_successes(self) ==
    LET iter == IntoIter(SuccessValues(self.results))
    IN  IF iter = << >> THEN all_ok(self)
        ELSE LET base == Head(iter)
                 inconsistent == inconsistent_results(Tail(iter), base[2])
             IN  IF inconsistent # << >>
                 THEN inconsistent_error(inconsistent, base)
                 ELSE Ok(base[2])

reduce_with_equality(self) ==
    LET all == all_ok(self)
    IN  IF all.tag # "OkMap" THEN all
        ELSE LET iter == IntoIter(all.values)
             IN  IF iter = << >>
                 THEN Panic("BUG: MultiCallResults is guaranteed to be non-empty")
                 ELSE LET base == Head(iter)
                          inconsistent == inconsistent_results(Tail(iter), base[2])
                      IN  IF inconsistent # << >>
                          THEN inconsistent_error(inconsistent, base)
                          ELSE Ok(base[2])

-----------------------------------------------------------------------------
(* MultiCallResults::reduce_with_min_by_key *)

\* The derived keys K: Ord of reduce_with_min_by_key, ordered as integers.
Keys == {3, 5, 9}

\* The key extractors a caller may hand in: every function from values to keys.
Extractors == [Values -> Keys]

\* The key of a transaction count is the count itself.
CountItself == [count \in Values |-> count]

\* min_by_key_from with the last of several minimal elements returned.
RECURSIVE min_by_key_from_last(_, _, _)
min_by_key_from_last(best, rest, f) ==
    IF rest = << >> THEN best
    ELSE min_by_key_from_last(IF f[Head(rest)] <= f[best] THEN Head(rest) ELSE best,
                              Tail(rest), f)

\* Iterator::min_by_key: of several minimal elements the first one is returned.
RECURSIVE min_by_key_from(_, _, _)
min_by_key_from(best, rest, f) ==
    IF rest = << >> THEN best
    ELSE min_by_key_from(IF f[Head(rest)] < f[best] THEN Head(rest) ELSE best,
                         Tail(rest), f)

\* BTreeMap::into_values: the values in ascending order of key.
IntoValues(map) == LET iter == IntoIter(map) IN [i \in DOMAIN iter |-> iter[i][2]]

\* reduce_with_min_by_key taking the greatest key.
reduce_with_max_by_key(self, f) ==
    LET all == all_ok(self)
    IN  IF all.tag # "OkMap" THEN all
        ELSE LET vals == IntoValues(all.values)
             IN  Ok(CHOOSE v \in Range(vals) : \A w \in Range(vals) : f[w] <= f[v])

reduce_with_min_by_key(self, f) ==
    LET all == all_ok(self)
    IN  IF all.tag # "OkMap" THEN all
        ELSE LET vals == IntoValues(all.values)
             IN  IF vals = << >>
                 THEN Panic("BUG: MultiCallResults is guaranteed to be non-empty")
                 ELSE Ok(min_by_key_from(Head(vals), Tail(vals), f))

-----------------------------------------------------------------------------
(* The facade of EthRpcClient. *)

\* parallel_call followed by reduce_with_equality
EqualityOps ==
    {"eth_get_logs", "eth_get_block_by_number", "eth_get_transaction_by_hash",
     "eth_get_transaction_receipt"}

\* parallel_call, the MultiCallResults handed back as they are
ParallelOps == EqualityOps \cup {"eth_get_transaction_count"}

\* sequential_call_until_ok
SequentialOps == {"eth_fee_history", "eth_send_raw_transaction"}

Operations == ParallelOps \cup SequentialOps

\* A future of fut whose call has not completed.
Pending == [tag |-> "Pending"]

\* The locals of an operation before it starts and after it has returned.
NoCall ==
    /\ op = "none"
    /\ idx = 0
    /\ last_result = None
    /\ fut = << >>
    /\ completed = << >>
    /\ invoked = << >>
    /\ world = << >>
    /\ results = None
    /\ verdict = None

Init ==
    /\ provider_lists \in ProviderLists
    /\ chain \in Networks
    /\ calls = 0
    /\ pc = "idle"
    /\ extractor = None
    /\ NoCall

\* A facade operation is called. The answer every provider of the selected
\* network gives to this call is fixed here; the call to a provider hands it
\* back when it completes.
Call ==
    /\ pc = "idle"
    /\ calls < MaxCalls
    /\ calls' = calls + 1
    /\ \E o \in Operations :
          /\ op' = o
          /\ pc' = IF o \in SequentialOps THEN "sequential_loop" ELSE "parallel_loop"
    /\ world' \in [Range(providers(chain)) -> Outcomes]
    /\ idx' = 1
    /\ UNCHANGED <<provider_lists, chain, last_result, fut, completed, invoked,
                   results, extractor, verdict>>

-----------------------------------------------------------------------------
(* EthRpcClient::sequential_call_until_ok *)

\* SequentialCall with the call to the next provider made while the call to
\* the previous one is still outstanding.
SequentialCall_eager ==
    /\ pc \in {"sequential_loop", "sequential_await"}
    /\ Len(invoked) < Len(providers(chain))
    /\ invoked' = Append(invoked, providers(chain)[Len(invoked) + 1])
    /\ fut' = Append(fut, Pending)
    /\ pc' = "sequential_await"
    /\ UNCHANGED <<provider_lists, chain, calls,
                   op, idx, last_result, completed, world, results,
                   extractor, verdict>>

\* `let result = eth_rpc::call(provider.url(), ...).await`: the call is invoked
\* and the loop suspends on its future.
SequentialCall ==
    /\ pc = "sequential_loop"
    /\ idx <= Len(providers(chain))
    /\ invoked' = Append(invoked, providers(chain)[idx])
    /\ fut' = Append(fut, Pending)
    /\ pc' = "sequential_await"
    /\ UNCHANGED <<provider_lists, chain, calls,
                   op, idx, last_result, completed, world, results,
                   extractor, verdict>>

\* sequential_returns with every result the transport layer delivered
\* returned, a JSON-RPC error included.
sequential_returns_any_answer(result) == result.tag # "HttpOutcallError"

\* `match result`: does the loop return this result?
sequential_returns(result) == result.tag = "Result"

\* sequential_last_result keeping the first error instead of the last.
sequential_last_result_first(last, result) ==
    IF last = None THEN Some(result) ELSE last

\* sequential_last_result remembering transport failures only.
sequential_last_result_transport_only(last, result) ==
    IF result.tag = "HttpOutcallError" THEN Some(result) ELSE last

\* `match result`: last_result after a result the loop does not return.
sequential_last_result(last, result) == Some(result)

\* SequentialResume with a provider that did not return a JSON-RPC success
\* called once more.
SequentialResume_retry ==
    /\ pc = "sequential_await"
    /\ LET result == world[providers(chain)[idx]]
       IN  IF sequential_returns(result)
           THEN /\ verdict' = result
                /\ pc' = "returned"
                /\ UNCHANGED <<idx, last_result>>
           ELSE /\ last_result' = sequential_last_result(last_result, result)
                /\ idx' = IF Count(invoked, providers(chain)[idx]) < 2
                          THEN idx ELSE idx + 1
                /\ pc' = "sequential_loop"
                /\ UNCHANGED verdict
    /\ fut' = [fut EXCEPT ![Len(fut)] = world[providers(chain)[idx]]]
    /\ UNCHANGED <<provider_lists, chain, calls,
                   op, completed, invoked, world, results,
                   extractor>>

\* The call completes and `match result` runs.
SequentialResume ==
    /\ pc = "sequential_await"
    /\ LET result == world[providers(chain)[idx]]
       IN  IF sequential_returns(result)
           THEN /\ verdict' = result
                /\ pc' = "returned"
                /\ UNCHANGED <<idx, last_result>>
           ELSE /\ last_result' = sequential_last_result(last_result, result)
                /\ idx' = idx + 1
                /\ pc' = "sequential_loop"
                /\ UNCHANGED verdict
    /\ fut' = [fut EXCEPT ![idx] = world[providers(chain)[idx]]]
    /\ UNCHANGED <<provider_lists, chain, calls,
                   op, completed, invoked, world, results, extractor>>

\* The loop is over: last_result.unwrap_or_else(|| panic!(...))
SequentialEnd ==
    /\ pc = "sequential_loop"
    /\ idx > Len(providers(chain))
    /\ IF last_result = None
       THEN /\ verdict' = Panic("BUG: No providers in RPC client")
            /\ pc' = "panicked"
       ELSE /\ verdict' = last_result.some
            /\ pc' = "returned"
    /\ UNCHANGED <<provider_lists, chain, calls,
                   op, idx, last_result, fut, completed, invoked, world,
                   results, extractor>>

-----------------------------------------------------------------------------
(* EthRpcClient::parallel_call *)

\* `fut.push(eth_rpc::call(provider.url(), ...))`: the call to the provider is
\* made and its future kept; nothing of it can complete before join_all is
\* awaited.
ParallelPush ==
    /\ pc = "parallel_loop"
    /\ idx <= Len(providers(chain))
    /\ fut' = Append(fut, Pending)
    /\ invoked' = Append(invoked, providers(chain)[idx])
    /\ idx' = idx + 1
    /\ UNCHANGED <<provider_lists, chain, calls,
                   pc, op, last_result, completed, world, results, extractor,
                   verdict>>

\* `futures::future::join_all(fut).await`: the operation suspends on all the
\* futures at once.
JoinAll ==
    /\ pc = "parallel_loop"
    /\ idx > Len(providers(chain))
    /\ pc' = "join_all"
    /\ UNCHANGED <<provider_lists, chain, calls,
                   op, idx, last_result, fut, completed, invoked, world,
                   results, extractor, verdict>>

\* Complete with a provider whose call failed at the transport level called
\* once more.
Complete_retry(i) ==
    /\ pc = "join_all"
    /\ fut[i] = Pending
    /\ IF /\ world[providers(chain)[i]].tag = "HttpOutcallError"
          /\ Count(invoked, providers(chain)[i]) < 2
       THEN /\ invoked' = Append(invoked, providers(chain)[i])
            /\ UNCHANGED <<fut, completed>>
       ELSE /\ fut' = [fut EXCEPT ![i] = world[providers(chain)[i]]]
            /\ completed' = Append(completed, i)
            /\ UNCHANGED invoked
    /\ UNCHANGED <<provider_lists, chain, calls,
                   pc, op, idx, last_result, world, results, extractor,
                   verdict>>

\* Complete with a transport failure never handed to the future.
Complete_loses_failure(i) ==
    /\ pc = "join_all"
    /\ fut[i] = Pending
    /\ world[providers(chain)[i]].tag # "HttpOutcallError"
    /\ fut' = [fut EXCEPT ![i] = world[providers(chain)[i]]]
    /\ completed' = Append(completed, i)
    /\ UNCHANGED <<provider_lists, chain, calls,
                   pc, op, idx, last_result, invoked,
                   world, results, extractor, verdict>>

\* The call behind one future completes, in any order among those outstanding.
Complete(i) ==
    /\ pc = "join_all"
    /\ fut[i] = Pending
    /\ fut' = [fut EXCEPT ![i] = world[providers(chain)[i]]]
    /\ completed' = Append(completed, i)
    /\ UNCHANGED <<provider_lists, chain, calls,
                   pc, op, idx, last_result, invoked, world, results,
                   extractor, verdict>>

\* join_all_ready as soon as one future is ready.
join_all_ready_any(futures) == \E i \in DOMAIN futures : futures[i] # Pending

\* join_all is ready when every future is.
join_all_ready(futures) == \A i \in DOMAIN futures : futures[i] # Pending

\* join_all_output without the transport failures.
join_all_output_no_failures(futures, completion_order) ==
    LET Answered(result) == result.tag # "HttpOutcallError"
    IN  SelectSeq(futures, Answered)

\* join_all_output in the order in which the calls completed.
join_all_output_completion_order(futures, completion_order) ==
    [i \in DOMAIN futures |-> futures[completion_order[i]]]

\* The output of join_all: the outputs of the futures in the order of the futures.
join_all_output(futures, completion_order) == futures

\* facade_reduction with the minimum reduction in the place of the equality
\* reduction.
facade_reduction_minimum_for_equality(o, multi_call_results) ==
    IF o \in EqualityOps
    THEN reduce_with_min_by_key(multi_call_results, CountItself)
    ELSE multi_call_results

\* facade_reduction with the minimum reduction applied to the transaction counts.
facade_reduction_minimum(o, multi_call_results) ==
    IF o \in EqualityOps THEN reduce_with_equality(multi_call_results)
    ELSE reduce_with_min_by_key(multi_call_results, CountItself)

\* What the facade operation makes of the results of parallel_call.
facade_reduction(o, multi_call_results) ==
    IF o \in EqualityOps THEN reduce_with_equality(multi_call_results)
    ELSE multi_call_results

\* join_all hands the outputs back, parallel_call builds the MultiCallResults
\* and the facade operation reduces them.
ParallelResume ==
    /\ pc = "join_all"
    /\ join_all_ready(fut)
    /\ LET built == from_non_empty_iter(
                        Zip(providers(chain), join_all_output(fut, completed)))
       IN  IF IsPanic(built)
           THEN /\ verdict' = built
                /\ pc' = "panicked"
                /\ UNCHANGED results
           ELSE /\ results' = built
                /\ verdict' = facade_reduction(op, built)
                /\ pc' = "returned"
    /\ UNCHANGED <<provider_lists, chain, calls,
                   op, idx, last_result, fut, completed, invoked, world,
                   extractor>>

\* Return with the futures of the call kept by the client.
Return_keeps_futures ==
    /\ pc = "returned"
    /\ pc' = "idle"
    /\ op' = "none"
    /\ idx' = 0
    /\ last_result' = None
    /\ completed' = << >>
    /\ invoked' = << >>
    /\ world' = << >>
    /\ results' = None
    /\ verdict' = None
    /\ UNCHANGED <<provider_lists, chain, calls, fut, extractor>>

\* The caller has the result; nothing of the call is kept.
Return ==
    /\ pc = "returned"
    /\ pc' = "idle"
    /\ op' = "none"
    /\ idx' = 0
    /\ last_result' = None
    /\ fut' = << >>
    /\ completed' = << >>
    /\ invoked' = << >>
    /\ world' = << >>
    /\ results' = None
    /\ verdict' = None
    /\ UNCHANGED <<provider_lists, chain, calls, extractor>>

Next ==
    \/ Call
    \/ SequentialCall
    \/ SequentialResume
    \/ SequentialEnd
    \/ ParallelPush
    \/ JoinAll
    \/ \E i \in DOMAIN fut : Complete(i)
    \/ ParallelResume
    \/ Return

Spec == Init /\ [][Next]_vars

-----------------------------------------------------------------------------
(* The reconciliation functions on every outcome set. *)

ReconcileProviders == 1 .. MaxProviders

\* Every non-empty outcome set over ReconcileProviders.
OutcomeSets ==
    UNION {[S -> Outcomes] : S \in (SUBSET ReconcileProviders) \ {{}}}

InitReconcile ==
    /\ provider_lists = [Mainnet |-> MAINNET_PROVIDERS, Sepolia |-> SEPOLIA_PROVIDERS]
    /\ chain = "Mainnet"
    /\ calls = 0
    /\ pc = "reconcile"
    /\ op = "none"
    /\ idx = 0
    /\ last_result = None
    /\ fut = << >>
    /\ completed = << >>
    /\ invoked = << >>
    /\ world = << >>
    /\ \E map \in OutcomeSets : results = MultiCallResults(map)
    /\ extractor = None
    /\ verdict = None

AllOk ==
    /\ pc = "reconcile"
    /\ op' = "all_ok"
    /\ verdict' = all_ok(results)
    /\ pc' = "reconciled"
    /\ UNCHANGED <<provider_lists, chain, calls,
                   idx, last_result, fut, completed, invoked, world, results,
                   extractor>>

ReduceWithEquality ==
    /\ pc = "reconcile"
    /\ op' = "reduce_with_equality"
    /\ verdict' = reduce_with_equality(results)
    /\ pc' = "reconciled"
    /\ UNCHANGED <<provider_lists, chain, calls,
                   idx, last_result, fut, completed, invoked, world, results,
                   extractor>>

ReduceWithMinByKey ==
    /\ pc = "reconcile"
    /\ op' = "reduce_with_min_by_key"
    /\ \E f \in Extractors :
          /\ extractor' = Some(f)
          /\ verdict' = reduce_with_min_by_key(results, f)
    /\ pc' = "reconciled"
    /\ UNCHANGED <<provider_lists, chain, calls,
                   idx, last_result, fut, completed, invoked, world, results>>

NextReconcile ==
    \/ AllOk
    \/ ReduceWithEquality
    \/ ReduceWithMinByKey

SpecReconcile == InitReconcile /\ [][NextReconcile]_vars

-----------------------------------------------------------------------------
(* Properties of reduce_with_equality, under SpecReconcile. *)

\* The outcome set under reconciliation, as a map.
Outcome == results.results

Reduced(name) == pc = "reconciled" /\ op = name

Successes == {p \in DOMAIN Outcome : IsSuccess(Outcome[p])}

NonSuccesses == DOMAIN Outcome \ Successes

\* Two providers answered with JSON-RPC successes of different values.
TwoSuccessesDiffer ==
    \E p, q \in Successes : Outcome[p].value # Outcome[q].value

ErrorVerdicts ==
    {"InconsistentResults", "ConsistentJsonRpcError", "ConsistentHttpOutcallError"}

\* C1: whenever reduce_with_equality returns an agreed value v, every provider
\* of the outcome set has the outcome JSON-RPC success with value v; no
\* majority, subset or first responder is enough.
C1_AgreedValueIsUnanimous ==
    (Reduced("reduce_with_equality") /\ verdict.tag = "Ok")
        => \A p \in DOMAIN Outcome : Outcome[p] = OkResult(verdict.value)

\* An agreed value returned for an outcome set of several providers.
C1_Witness ==
    /\ Reduced("reduce_with_equality")
    /\ verdict.tag = "Ok"
    /\ Cardinality(DOMAIN Outcome) >= 2

\* C3 as stated: two successes with different values make the verdict
\* Inconsistent Results whatever the remaining providers returned.
C3_DifferingSuccessesAlwaysInconsistent ==
    (Reduced("reduce_with_equality") /\ TwoSuccessesDiffer)
        => verdict.tag = "InconsistentResults"

\* C3 as amended: two successes with different values never yield an agreed
\* value; the verdict is an error verdict, and it is Inconsistent Results when
\* every provider of the outcome set returned a JSON-RPC success.
C3_DifferingSuccessesNeverAgree ==
    (Reduced("reduce_with_equality") /\ TwoSuccessesDiffer)
        => /\ verdict.tag \in ErrorVerdicts
           /\ NonSuccesses = {} => verdict.tag = "InconsistentResults"

\* Two differing successes beside a non-success outcome, reduced to an error
\* verdict that is not Inconsistent Results.
C3_Witness ==
    /\ Reduced("reduce_with_equality")
    /\ TwoSuccessesDiffer
    /\ NonSuccesses # {}
    /\ verdict.tag \in ErrorVerdicts \ {"InconsistentResults"}

\* C4: when every provider returned a JSON-RPC success and at least one value
\* differs from the others, reduce_with_equality returns Inconsistent Results
\* with at least 2 and at most as many entries as the outcome set has providers.
C4_MinimalDivergence ==
    (Reduced("reduce_with_equality") /\ NonSuccesses = {} /\ TwoSuccessesDiffer)
        => /\ verdict.tag = "InconsistentResults"
           /\ Cardinality(DOMAIN verdict.results) >= 2
           /\ Cardinality(DOMAIN verdict.results) <= Cardinality(DOMAIN Outcome)

\* An all-success outcome set where one provider agrees with the baseline and
\* another does not: the evidence is smaller than the outcome set.
C4_Witness ==
    /\ Reduced("reduce_with_equality")
    /\ NonSuccesses = {}
    /\ TwoSuccessesDiffer
    /\ verdict.tag = "InconsistentResults"
    /\ Cardinality(DOMAIN verdict.results) < Cardinality(DOMAIN Outcome)

\* C5: for a non-empty outcome set in which every provider maps to JSON-RPC
\* success with the same value v, reduce_with_equality returns v and not an
\* error, for any number of providers, one included.
C5_AllSuccessRoundTrip ==
    \A v \in Values :
        (Reduced("reduce_with_equality")
            /\ \A p \in DOMAIN Outcome : Outcome[p] = OkResult(v))
        => verdict = Ok(v)

\* The same success from exactly one provider, reduced to its value.
C5_Witness ==
    /\ Reduced("reduce_with_equality")
    /\ Cardinality(DOMAIN Outcome) = 1
    /\ NonSuccesses = {}
    /\ verdict.tag = "Ok"

-----------------------------------------------------------------------------
(* Properties of the dispatch strategies, under Spec. *)

\* The providers of the client's network, in directory order.
Directory == providers(chain)

ParallelReturned == op \in ParallelOps /\ pc = "returned"

SequentialReturned == op \in SequentialOps /\ pc = "returned"

TransportFailed(p) == world[p].tag = "HttpOutcallError"

\* The position in the directory of the first provider whose transport
\* layer succeeds in this call, when there is one.
FirstAnswered ==
    Min({i \in DOMAIN Directory : ~TransportFailed(Directory[i])})

\* C2 as stated: sequential_call_until_ok stops at, and returns the outcome of,
\* the first provider in directory order whose transport layer succeeded,
\* JSON-RPC success or JSON-RPC error; no later provider is invoked.
C2_StopsAtFirstTransportSuccess ==
    (SequentialReturned /\ \E p \in Range(Directory) : ~TransportFailed(p))
        => /\ verdict = world[Directory[FirstAnswered]]
           /\ invoked = SubSeq(Directory, 1, FirstAnswered)

\* C6: the outcome set parallel_call returns has exactly one entry per queried
\* provider: its keys are the providers of the selected network, whatever the
\* providers returned.
C6_OneEntryPerProvider ==
    ParallelReturned
        => /\ results.tag = "MultiCallResults"
           /\ DOMAIN Outcome = Range(Directory)
           /\ Cardinality(DOMAIN Outcome) = Len(Directory)

\* parallel_call has returned after a success, a JSON-RPC error and a transport
\* failure from three providers.
C6_Witness ==
    /\ ParallelReturned
    /\ \E p, q, r \in Range(Directory) :
          /\ world[p].tag = "Result"
          /\ world[q].tag = "Error"
          /\ world[r].tag = "HttpOutcallError"

\* C7: in the outcome set parallel_call returns, the entry under provider p is
\* the outcome of the call made to p, for every order in which the calls
\* completed.
C7_EntryIsOwnOutcome ==
    ParallelReturned
        => \A p \in Range(Directory) :
              /\ p \in DOMAIN Outcome
              /\ Outcome[p] = world[p]

\* parallel_call has returned after the calls completed last provider first,
\* every provider with an outcome of its own.
C7_Witness ==
    /\ ParallelReturned
    /\ Len(completed) = 3
    /\ completed[1] = 3
    /\ completed[2] = 2
    /\ \A p, q \in Range(Directory) : p # q => world[p] # world[q]

\* The futures of parallel_call whose call has not completed.
Outstanding == {i \in DOMAIN fut : fut[i] = Pending}

\* C8: parallel_call invokes the call to every provider before it suspends on
\* any of them, no call completes before every call is issued, and it returns
\* only after every issued call has completed.
C8_WaitForAllBarrier ==
    /\ pc = "join_all" => invoked = Directory /\ Len(fut) = Len(Directory)
    /\ completed # << >> => invoked = Directory /\ Len(fut) = Len(Directory)
    /\ (ParallelReturned \/ results # None)
          => Outstanding = {} /\ Len(completed) = Len(Directory)

\* parallel_call is suspended with one call completed and two outstanding.
C8_Witness ==
    /\ pc = "join_all"
    /\ Len(completed) = 1
    /\ Cardinality(Outstanding) = 2

\* C9: parallel_call invokes every provider of the selected network exactly
\* once per call: no provider is invoked twice, and once the loop is over every
\* provider has been invoked, whatever any of them returns.
C9_EveryProviderExactlyOnce ==
    op \in ParallelOps
        => /\ \A i \in DOMAIN invoked : invoked[i] \in Range(Directory)
           /\ \A p \in Range(Directory) : Count(invoked, p) <= 1
           /\ pc \in {"join_all", "returned"}
                 => \A p \in Range(Directory) : Count(invoked, p) = 1

\* parallel_call has returned although the first provider failed at the
\* transport level and the second returned a JSON-RPC error.
C9_Witness ==
    /\ ParallelReturned
    /\ world[Directory[1]].tag = "HttpOutcallError"
    /\ world[Directory[2]].tag = "Error"
    /\ Len(invoked) = Len(Directory)

\* C10: if every provider fails at the transport level,
\* sequential_call_until_ok invokes all providers and returns the transport
\* failure of the last provider in directory order.
C10_AllTransportFailures ==
    (SequentialReturned /\ \A p \in Range(Directory) : TransportFailed(p))
        => /\ invoked = Directory
           /\ verdict = world[Directory[Len(Directory)]]

\* sequential_call_until_ok has returned after three transport failures, the
\* last one different from the first.
C10_Witness ==
    /\ SequentialReturned
    /\ \A p \in Range(Directory) : TransportFailed(p)
    /\ Len(Directory) = 3
    /\ world[Directory[1]] # world[Directory[3]]
    /\ verdict = world[Directory[3]]

-----------------------------------------------------------------------------
(* Further properties of sequential_call_until_ok, under Spec. *)

\* In every state of a sequential operation: the providers invoked so far are
\* a prefix of the directory, at most one call is outstanding, and none is
\* once the operation has returned.
C11_State ==
    op \in SequentialOps
        => /\ invoked = SubSeq(Directory, 1, Len(invoked))
           /\ Len(fut) = Len(invoked)
           /\ Cardinality(Outstanding) <= 1
           /\ pc = "returned" => Outstanding = {}

\* In every step of a sequential operation that invokes a provider: no call is
\* outstanding, the operation has not returned, and the provider invoked is
\* the next one of the directory.
C11_Step ==
    (op' \in SequentialOps /\ Len(invoked') > Len(invoked))
        => /\ Outstanding = {}
           /\ pc = "sequential_loop"
           /\ invoked' = Append(invoked, Directory[Len(invoked) + 1])

\* C11: sequential_call_until_ok invokes providers strictly in directory order
\* with at most one call outstanding: provider i+1 is invoked only after the
\* call to provider i has completed, and once it has returned no later
\* provider is invoked.
C11_OneAtATimeInOrder == [](C11_State) /\ [][C11_Step]_vars

\* The second provider's call is outstanding after the first one's completed.
C11_Witness ==
    /\ op \in SequentialOps
    /\ pc = "sequential_await"
    /\ Len(fut) = 2
    /\ fut[1] # Pending
    /\ fut[2] = Pending

-----------------------------------------------------------------------------
(* Properties of all_ok, under SpecReconcile. They are stated of the verdict  *)
(* of all_ok and of both reductions, which hand the error of all_ok on.       *)

Reconciled == pc = "reconciled"

\* The first non-success outcome in provider order is under this provider.
ErrorWitness == Min(NonSuccesses)

\* The providers whose non-success outcome is not that of the witness.
Conflicting == {q \in NonSuccesses : Outcome[q] # Outcome[ErrorWitness]}

\* C13: ConsistentJsonRpcError{code, message} is returned exactly when the
\* outcome set has at least one non-success outcome and every non-success
\* outcome is a JSON-RPC error with that code and message.
C13_ConsistentJsonRpcErrorExactly ==
    Reconciled
        => /\ \A e \in JsonRpcErrors :
                 verdict = ConsistentJsonRpcError(e.code, e.message)
                     <=> /\ NonSuccesses # {}
                         /\ \A p \in NonSuccesses : Outcome[p] = e
           /\ verdict.tag = "ConsistentJsonRpcError"
                 => \E e \in JsonRpcErrors :
                       verdict = ConsistentJsonRpcError(e.code, e.message)

\* Two providers, both with the JSON-RPC error {code: -32000, message: "x"}.
C13_Witness ==
    /\ Reduced("all_ok")
    /\ Cardinality(DOMAIN Outcome) = 2
    /\ \A p \in DOMAIN Outcome : Outcome[p] = OkError(-32000, "x")
    /\ verdict = ConsistentJsonRpcError(-32000, "x")

\* C14: if one provider returns a JSON-RPC error and another a transport
\* failure, the verdict is Inconsistent Results, whichever comes first.
C14_DifferentKindsNeverMerged ==
    (Reconciled /\ \E p, q \in NonSuccesses :
                      /\ Outcome[p].tag = "Error"
                      /\ Outcome[q].tag = "HttpOutcallError")
        => verdict.tag = "InconsistentResults"

\* A transport failure from the first provider, a JSON-RPC error from a later
\* one.
C14_Witness ==
    /\ Reduced("all_ok")
    /\ NonSuccesses # {}
    /\ Outcome[ErrorWitness].tag = "HttpOutcallError"
    /\ \E q \in NonSuccesses : Outcome[q].tag = "Error"
    /\ verdict.tag = "InconsistentResults"

\* C15: when all_ok finds two non-equivalent non-success outcomes, the
\* evidence of Inconsistent Results has exactly two entries: the first
\* non-success outcome in provider order and the first later non-success
\* outcome not equivalent to it.
C15_ExactlyTwoWitnesses ==
    (Reconciled /\ NonSuccesses # {} /\ Conflicting # {})
        => /\ verdict.tag = "InconsistentResults"
           /\ DOMAIN verdict.results = {ErrorWitness, Min(Conflicting)}
           /\ \A p \in DOMAIN verdict.results : verdict.results[p] = Outcome[p]

\* Three providers with three different non-success outcomes: the third one
\* is not in the evidence.
C15_Witness ==
    /\ Reduced("all_ok")
    /\ Cardinality(NonSuccesses) = 3
    /\ Cardinality(Conflicting) = 2
    /\ verdict.tag = "InconsistentResults"
    /\ Cardinality(DOMAIN verdict.results) = 2

\* The provider equality reduction takes as its baseline.
Baseline == Min(DOMAIN Outcome)

\* The providers whose outcome differs from the baseline's.
DiffersFromBaseline == {p \in DOMAIN Outcome : Outcome[p] # Outcome[Baseline]}

\* C16 as stated: whenever the verdict is Inconsistent Results, every provider
\* whose outcome differs from the baseline success (equality reduction) or is
\* not equivalent to the error witness (classification) is in the evidence.
C16_NoDisagreeingProviderDropped ==
    (Reconciled /\ verdict.tag = "InconsistentResults")
        => IF NonSuccesses = {}
           THEN DiffersFromBaseline \subseteq DOMAIN verdict.results
           ELSE Conflicting \subseteq DOMAIN verdict.results

\* C16 as amended: the evidence of equality reduction holds the baseline and
\* every provider whose value differs from it; the evidence of classification
\* holds the error witness and the first provider in provider order that is
\* not equivalent to it.
C16_DisagreementSurfaced ==
    (Reconciled /\ verdict.tag = "InconsistentResults")
        => IF NonSuccesses = {}
           THEN DiffersFromBaseline \cup {Baseline} \subseteq DOMAIN verdict.results
           ELSE /\ Conflicting # {}
                /\ {ErrorWitness, Min(Conflicting)} \subseteq DOMAIN verdict.results

\* Equality reduction with two providers differing from the baseline, both in
\* the evidence.
C16_Witness ==
    /\ Reduced("reduce_with_equality")
    /\ NonSuccesses = {}
    /\ Cardinality(DiffersFromBaseline) = 2
    /\ verdict.tag = "InconsistentResults"
    /\ Cardinality(DOMAIN verdict.results) = 3

-----------------------------------------------------------------------------
(* Properties of reduce_with_min_by_key, under SpecReconcile. *)

\* The derived key of the value provider p returned, under the extractor of
\* this reduction.
KeyOf(p) == extractor.some[Outcome[p].value]

AllSuccessMinReduced == Reduced("reduce_with_min_by_key") /\ NonSuccesses = {}

\* The providers whose value has the minimal derived key.
MinimalKeyProviders ==
    {p \in DOMAIN Outcome : \A q \in DOMAIN Outcome : KeyOf(p) <= KeyOf(q)}

\* C17: for an all-success outcome set reduce_with_min_by_key returns the value
\* of a provider whose derived key is at most that of every other provider;
\* with derived keys {5, 3, 9} it returns the value with key 3 wherever it is.
C17_MinimumSelection ==
    AllSuccessMinReduced
        => /\ verdict.tag = "Ok"
           /\ \E p \in MinimalKeyProviders : verdict.value = Outcome[p].value
           /\ {KeyOf(p) : p \in DOMAIN Outcome} = {5, 3, 9}
                 => extractor.some[verdict.value] = 3

\* Keys 5, 9 and 3 from providers 1, 2 and 3: the minimum is the last one.
C17_Witness ==
    /\ AllSuccessMinReduced
    /\ DOMAIN Outcome = {1, 2, 3}
    /\ KeyOf(1) = 5
    /\ KeyOf(2) = 9
    /\ KeyOf(3) = 3
    /\ verdict = Ok(Outcome[3].value)

\* C18: when several successes share the minimal derived key,
\* reduce_with_min_by_key returns the value of the one that comes first in
\* provider order.
C18_TieGoesToFirstProvider ==
    AllSuccessMinReduced
        => verdict = Ok(Outcome[Min(MinimalKeyProviders)].value)

\* Providers 2 and 3 share the minimal key with different values, provider 1
\* has a greater key: the value of provider 2 is returned.
C18_Witness ==
    /\ AllSuccessMinReduced
    /\ DOMAIN Outcome = {1, 2, 3}
    /\ MinimalKeyProviders = {2, 3}
    /\ Outcome[2].value # Outcome[3].value
    /\ verdict = Ok(Outcome[2].value)

-----------------------------------------------------------------------------
(* Outcome sets built from their pairs in every order. *)

\* Every sequence that lists each element of S once.
InsertionOrders(S) ==
    {order \in [1 .. Cardinality(S) -> S] :
        \A i, j \in DOMAIN order : i # j => order[i] # order[j]}

\* world is the assignment of outcomes to providers; invoked is the order in
\* which its pairs are handed to from_non_empty_iter.
InitBuild ==
    /\ provider_lists = [Mainnet |-> MAINNET_PROVIDERS, Sepolia |-> SEPOLIA_PROVIDERS]
    /\ chain = "Mainnet"
    /\ calls = 0
    /\ pc = "build"
    /\ op = "none"
    /\ idx = 0
    /\ last_result = None
    /\ fut = << >>
    /\ completed = << >>
    /\ \E S \in (SUBSET (1 .. MaxInserted)) \ {{}} :
          /\ world \in [S -> Outcomes]
          /\ invoked \in InsertionOrders(S)
    /\ results = None
    /\ extractor = None
    /\ verdict = None

FromNonEmptyIter ==
    /\ pc = "build"
    /\ results' = from_non_empty_iter(
                      [i \in DOMAIN invoked |-> <<invoked[i], world[invoked[i]]>>])
    /\ pc' = "reconcile"
    /\ UNCHANGED <<provider_lists, chain, calls,
                   op, idx, last_result, fut, completed, invoked, world,
                   extractor, verdict>>

NextBuild ==
    \/ FromNonEmptyIter
    \/ AllOk
    \/ ReduceWithEquality
    \/ ReduceWithMinByKey

SpecBuild == InitBuild /\ [][NextBuild]_vars

\* The verdict of classification as a function of the assignment alone.
ClassificationOf(map) ==
    LET errors == {p \in DOMAIN map : ~IsSuccess(map[p])}
    IN  IF errors = {}
        THEN OkMap([p \in DOMAIN map |-> map[p].value])
        ELSE LET first == Min(errors)
                 others == {q \in errors : map[q] # map[first]}
             IN  IF others # {}
                 THEN [tag |-> "InconsistentResults",
                       results |-> [p \in {first, Min(others)} |-> map[p]]]
                 ELSE IF map[first].tag = "Error"
                 THEN ConsistentJsonRpcError(map[first].code, map[first].message)
                 ELSE ConsistentHttpOutcallError(map[first].error)

\* The verdict of equality reduction as a function of the assignment alone.
EqualityOf(map) ==
    IF \E p \in DOMAIN map : ~IsSuccess(map[p]) THEN ClassificationOf(map)
    ELSE LET base == Min(DOMAIN map)
             differing == {p \in DOMAIN map : map[p] # map[base]}
         IN  IF differing = {} THEN Ok(map[base].value)
             ELSE [tag |-> "InconsistentResults",
                   results |-> [p \in differing \cup {base} |-> map[p]]]

\* The verdict of minimum reduction as a function of the assignment and the
\* extractor alone.
MinimumOf(map, f) ==
    IF \E p \in DOMAIN map : ~IsSuccess(map[p]) THEN ClassificationOf(map)
    ELSE LET minimal == {p \in DOMAIN map :
                            \A q \in DOMAIN map : f[map[p].value] <= f[map[q].value]}
         IN  Ok(map[Min(minimal)].value)

\* C19: the verdict is a function of the outcome set alone: whatever the order
\* in which the (provider, outcome) pairs were inserted, classification and
\* either reduction yield the verdict, evidence included, that the assignment
\* of outcomes to providers determines.
C19_VerdictIsFunctionOfOutcomeSet ==
    /\ pc \in {"reconcile", "reconciled"} => results = MultiCallResults(world)
    /\ Reduced("all_ok") => verdict = ClassificationOf(world)
    /\ Reduced("reduce_with_equality") => verdict = EqualityOf(world)
    /\ Reduced("reduce_with_min_by_key")
          => verdict = MinimumOf(world, extractor.some)

\* Provider 2 inserted before provider 1, both with the minimal key and with
\* different values: the value of provider 1 is returned.
C19_Witness ==
    /\ Reduced("reduce_with_min_by_key")
    /\ invoked = <<2, 1>>
    /\ IsSuccess(world[1])
    /\ IsSuccess(world[2])
    /\ world[1] # world[2]
    /\ extractor.some[world[1].value] = extractor.some[world[2].value]
    /\ verdict = Ok(world[1].value)

-----------------------------------------------------------------------------
(* eth_get_transaction_count. *)

TransactionCountReturned ==
    pc = "returned" /\ op = "eth_get_transaction_count"

AllCountsAnswered == \A p \in Range(Directory) : IsSuccess(world[p])

MinimalCount == Min({world[p].value : p \in Range(Directory)})

\* C20 as stated: the output of eth_get_transaction_count is either the minimal
\* transaction count among the providers' answers or a typed reconciliation
\* error.
C20_OutputIsMinimalCountOrError ==
    TransactionCountReturned
        => IF AllCountsAnswered THEN verdict = Ok(MinimalCount)
           ELSE verdict.tag \in ErrorVerdicts

\* C20 amended: eth_get_transaction_count uses broadcast dispatch and returns
\* the complete outcome set, one entry per provider of the directory, without
\* reducing it; the minimum reduction applied to that output yields the
\* minimal transaction count among the providers' answers or a typed
\* reconciliation error.
C20_OutputIsUnreducedOutcomeSet ==
    TransactionCountReturned
        => /\ Len(fut) = Len(Directory)
           /\ verdict = MultiCallResults([p \in Range(Directory) |-> world[p]])
           /\ LET reduced == reduce_with_min_by_key(verdict, CountItself)
              IN  IF AllCountsAnswered THEN reduced = Ok(MinimalCount)
                  ELSE reduced.tag \in ErrorVerdicts

\* Three providers answered with different counts, the smallest not first.
C20_Witness ==
    /\ TransactionCountReturned
    /\ AllCountsAnswered
    /\ Cardinality({world[p].value : p \in Range(Directory)}) = 3
    /\ world[Directory[1]].value # MinimalCount
    /\ verdict.tag = "MultiCallResults"

-----------------------------------------------------------------------------
(* The facade operations reduced with equality. *)

EqualityReturnedValue ==
    pc = "returned" /\ op \in EqualityOps /\ verdict.tag = "Ok"

\* C21: eth_get_logs, eth_get_block_by_number, eth_get_transaction_by_hash and
\* eth_get_transaction_receipt return a value only after every provider of the
\* selected network has been queried and has answered, and only if all of
\* them returned that same value.
C21_ValueOnlyWhenAllProvidersAgree ==
    EqualityReturnedValue
        => /\ Directory # << >>
           /\ invoked = Directory
           /\ Len(fut) = Len(Directory)
           /\ Outstanding = {}
           /\ Range(completed) = DOMAIN Directory
           /\ \A p \in Range(Directory) : world[p] = OkResult(verdict.value)

\* Three providers answered in an order other than the directory's, all with
\* the same value.
C21_Witness ==
    /\ EqualityReturnedValue
    /\ op = "eth_get_logs"
    /\ Len(Directory) = 3
    /\ completed = <<3, 1, 2>>
    /\ verdict = Ok(2)

-----------------------------------------------------------------------------
(* No providers. *)

EmptyOutcomeSetPanic == Panic("BUG: MultiCallResults cannot be empty!")

C22_State ==
    /\ results # None => DOMAIN results.results # {}
    /\ (op \in ParallelOps /\ Directory = << >>) => pc # "returned"
    /\ (op \in ParallelOps /\ pc = "panicked")
          => /\ Directory = << >>
             /\ verdict = EmptyOutcomeSetPanic
             /\ results = None

C22_Step ==
    (pc = "join_all" /\ Directory = << >>)
        => /\ pc' = "panicked"
           /\ verdict' = EmptyOutcomeSetPanic
           /\ results' = None

\* C22: constructing an outcome set from zero (provider, outcome) pairs
\* panics; it yields neither an error verdict nor an empty outcome set. So
\* parallel_call over an empty provider list panics instead of returning, and
\* every outcome set that exists is non-empty.
C22_EmptyOutcomeSetPanics == [](C22_State) /\ [][C22_Step]_vars

\* parallel_call over an empty provider list has panicked.
C22_Witness ==
    /\ op \in ParallelOps
    /\ Directory = << >>
    /\ fut = << >>
    /\ pc = "panicked"
    /\ verdict = EmptyOutcomeSetPanic

NoProvidersPanic == Panic("BUG: No providers in RPC client")

SequentialRunning ==
    op \in SequentialOps /\ pc \in {"sequential_loop", "sequential_await"}

C23_State ==
    /\ (op \in SequentialOps /\ pc = "panicked")
          => /\ Directory = << >>
             /\ invoked = << >>
             /\ verdict = NoProvidersPanic
    /\ SequentialReturned
          => /\ Directory # << >>
             /\ \E i \in DOMAIN invoked : verdict = world[invoked[i]]
    /\ SequentialRunning
          => ENABLED (SequentialCall \/ SequentialResume \/ SequentialEnd)

C23_Step ==
    (SequentialRunning /\ Directory = << >>)
        => pc' = "panicked" /\ verdict' = NoProvidersPanic

\* C23: sequential_call_until_ok panics if and only if the provider list is
\* empty; with a non-empty provider list it never panics and what it returns
\* is the outcome of a provider it invoked, whatever the providers answer.
C23_PanicsIffNoProviders == [](C23_State) /\ [][C23_Step]_vars

\* sequential_call_until_ok over an empty provider list has panicked.
C23_Witness ==
    /\ op \in SequentialOps
    /\ Directory = << >>
    /\ pc = "panicked"
    /\ verdict = NoProvidersPanic

-----------------------------------------------------------------------------
(* No retries in sequential_call_until_ok. *)

\* The providers whose call of this operation has completed.
Answered == {invoked[i] : i \in {j \in DOMAIN fut : fut[j] # Pending}}

\* C24: sequential_call_until_ok never retries: within one call each provider
\* is invoked at most once, and a provider that returned a transport failure
\* or a JSON-RPC error is not invoked again.
C24_SequentialNeverRetries ==
    (op \in SequentialOps /\ pc \in {"sequential_loop", "sequential_await", "returned"})
        => /\ \A p \in Range(Directory) : Count(invoked, p) <= 1
           /\ \A p \in Answered : ~IsSuccess(world[p]) => Count(invoked, p) = 1
           /\ Len(fut) = Len(invoked)

\* sequential_call_until_ok has returned after a transport failure of the
\* first provider and a JSON-RPC error of the second.
C24_Witness ==
    /\ SequentialReturned
    /\ Len(Directory) = 3
    /\ world[Directory[1]].tag = "HttpOutcallError"
    /\ world[Directory[2]].tag = "Error"
    /\ IsSuccess(world[Directory[3]])
    /\ invoked = Directory

-----------------------------------------------------------------------------
(* The client is stateless per call. *)

\* The outcome set of the call: what each provider of the directory answers.
OutcomesOfCall == [p \in Range(Directory) |-> world[p]]

\* What a sequential operation returns, from the directory and the answers.
SequentialResultOf ==
    LET successes == {i \in DOMAIN Directory : IsSuccess(world[Directory[i]])}
    IN  IF Directory = << >> THEN NoProvidersPanic
        ELSE IF successes # {} THEN world[Directory[Min(successes)]]
        ELSE world[Directory[Len(Directory)]]

\* What a parallel operation returns, from the directory and the answers.
ParallelResultOf ==
    IF Directory = << >> THEN EmptyOutcomeSetPanic
    ELSE IF op \in EqualityOps THEN EqualityOf(OutcomesOfCall)
    ELSE MultiCallResults(OutcomesOfCall)

C25_State ==
    /\ pc = "idle" => NoCall
    /\ pc \in {"returned", "panicked"}
          => verdict = IF op \in SequentialOps THEN SequentialResultOf
                       ELSE ParallelResultOf

C25_Step == chain' = chain /\ provider_lists' = provider_lists

\* C25: no facade operation changes the client: the selected network is the
\* same after any sequence of operations, nothing of a call is left once it
\* has returned, and what an operation returns is determined by the selected
\* network, the operation and the answers of the providers to that call, not
\* by any earlier call.
C25_StatelessPerCall == [](C25_State) /\ [][C25_Step]_vars

\* The second operation called on the client has returned an agreed value.
C25_Witness ==
    /\ calls = 2
    /\ chain = "Sepolia"
    /\ pc = "returned"
    /\ op = "eth_get_block_by_number"
    /\ verdict = Ok(3)

-----------------------------------------------------------------------------
(* Consistent errors and the reductions of outcome sets with errors. *)

\* C26: when the outcome set has at least one non-success outcome and all its
\* non-success outcomes are equivalent, the verdict is one Consistent error of
\* the kind of the witness with the content of the witness:
\* ConsistentJsonRpcError with its code and message for a JSON-RPC error,
\* ConsistentHttpOutcallError with its failure for a transport failure.
C26_ConsistentErrorEchoesWitness ==
    (Reconciled /\ NonSuccesses # {} /\ Conflicting = {})
        => LET witness == Outcome[ErrorWitness]
           IN  /\ witness.tag = "Error"
                     => verdict = ConsistentJsonRpcError(witness.code, witness.message)
               /\ witness.tag = "HttpOutcallError"
                     => verdict = ConsistentHttpOutcallError(witness.error)

\* Two providers with the same JSON-RPC error next to a provider that
\* succeeded.
C26_Witness ==
    /\ Reduced("all_ok")
    /\ Successes # {}
    /\ Cardinality(NonSuccesses) = 2
    /\ Conflicting = {}
    /\ verdict = ConsistentJsonRpcError(-32001, "x")

\* C27: both reductions apply to all-success outcome sets only: if the
\* outcome of any provider is a JSON-RPC error or a transport failure,
\* reduce_with_equality and reduce_with_min_by_key return an error verdict,
\* never a value, and both return the error verdict of all_ok.
C27_ReductionsHandOnTheError ==
    (Reconciled /\ NonSuccesses # {}
                /\ op \in {"reduce_with_equality", "reduce_with_min_by_key"})
        => /\ verdict.tag \in ErrorVerdicts
           /\ verdict = all_ok(results)
           /\ verdict = ClassificationOf(Outcome)

\* Two providers agree on a value and a third failed at the transport level:
\* reduce_with_equality returns the transport failure.
C27_Witness ==
    /\ Reduced("reduce_with_equality")
    /\ Cardinality(Successes) = 2
    /\ ~TwoSuccessesDiffer
    /\ Cardinality(NonSuccesses) = 1
    /\ verdict = ConsistentHttpOutcallError("timeout")

\* C28: when reduce_with_equality returns Inconsistent Results for an
\* all-success outcome set, the evidence holds the success of the baseline
\* provider and the success of every provider whose value differs from the
\* baseline's, and of no other provider.
C28_EvidenceIsBaselineAndDiffering ==
    (Reduced("reduce_with_equality") /\ NonSuccesses = {}
                                     /\ verdict.tag = "InconsistentResults")
        => /\ DiffersFromBaseline # {}
           /\ DOMAIN verdict.results = {Baseline} \cup DiffersFromBaseline
           /\ \A p \in DOMAIN verdict.results : verdict.results[p] = Outcome[p]

\* Three providers succeeded; the second agrees with the baseline, the third
\* does not: the evidence holds the first and the third.
C28_Witness ==
    /\ Reduced("reduce_with_equality")
    /\ DOMAIN Outcome = {1, 2, 3}
    /\ NonSuccesses = {}
    /\ Outcome[2] = Outcome[1]
    /\ Outcome[3] # Outcome[1]
    /\ verdict.tag = "InconsistentResults"
    /\ DOMAIN verdict.results = {1, 3}

-----------------------------------------------------------------------------
(* No timeout: termination when every outcall completes. *)

\* The steps of a running operation up to join_all: its own, and the
\* completion of the outcalls it waits for.
Progress ==
    \/ SequentialCall
    \/ SequentialResume
    \/ SequentialEnd
    \/ ParallelPush
    \/ JoinAll
    \/ \E i \in DOMAIN fut : Complete(i)

\* ParallelResume is enabled: join_all is awaited and ready.
JoinAllReady == pc = "join_all" /\ join_all_ready(fut)

\* Every outcall eventually completes and the single-threaded executor runs
\* the operation whenever it can proceed. ParallelResume always leaves
\* join_all, so its weak fairness is that JoinAllReady does not hold for ever.
SpecLive ==
    Init /\ [][Next]_vars /\ WF_vars(Progress) /\ []<>(~JoinAllReady)

Running == pc \notin {"idle", "returned", "panicked"}

C29_State ==
    /\ (op \in ParallelOps /\ pc = "returned")
          => Outstanding = {} /\ Len(fut) = Len(Directory)
    /\ (pc = "join_all" /\ Outstanding # {}) => ~ENABLED ParallelResume
    /\ pc = "sequential_await" => ~ENABLED (SequentialCall \/ SequentialEnd)

C29_Step ==
    (op \in ParallelOps /\ Outstanding # {}) => pc' # "returned"

\* C29: the client enforces no timeout of its own. If every outcall eventually
\* completes, with any outcome, every operation eventually returns (with no
\* provider at all it panics: C22, C23); and an operation based on
\* parallel_call takes no step past join_all, and does not return, as long as
\* the call to any one provider has not completed.
C29_NoTimeout ==
    /\ [](C29_State)
    /\ [][C29_Step]_vars
    /\ Running ~> (pc = "returned" \/ (pc = "panicked" /\ Directory = << >>))

\* parallel_call has returned after the call to the first provider completed
\* last, with a transport failure.
C29_Witness ==
    /\ ParallelReturned
    /\ Len(Directory) = 3
    /\ completed = <<2, 3, 1>>
    /\ world[Directory[1]].tag = "HttpOutcallError"

-----------------------------------------------------------------------------
(* sequential_call_until_ok when a provider succeeds. *)

\* The positions of the directory whose provider answers with a JSON-RPC
\* success.
SuccessPositions == {i \in DOMAIN Directory : IsSuccess(world[Directory[i]])}

-----------------------------------------------------------------------------
(* The evidence of Inconsistent Results. *)

Inconsistent == Reconciled /\ verdict.tag = "InconsistentResults"

\* C31: every (provider, outcome) pair in the evidence of Inconsistent Results
\* is a pair of the outcome set, unchanged: the evidence is a sub-map of the
\* input, with no provider and no outcome that the input does not have.
C31_EvidenceIsSubMap ==
    Inconsistent
        => /\ DOMAIN verdict.results \subseteq DOMAIN Outcome
           /\ \A p \in DOMAIN verdict.results : verdict.results[p] = Outcome[p]

\* reduce_with_equality over three providers that all succeeded, the second
\* and the third with values of their own: the evidence has the three pairs.
C31_Witness ==
    /\ Reduced("reduce_with_equality")
    /\ DOMAIN Outcome = {1, 2, 3}
    /\ NonSuccesses = {}
    /\ Cardinality({Outcome[p] : p \in DOMAIN Outcome}) = 3
    /\ verdict = InconsistentResults(results)

\* C32: the evidence of Inconsistent Results is homogeneous: the evidence of
\* all_ok holds non-success outcomes only, the evidence of the equality
\* reduction holds JSON-RPC successes only, and no evidence holds a success
\* next to a non-success outcome.
C32_EvidenceIsHomogeneous ==
    Inconsistent
        => LET evidence == verdict.results
               AllSuccesses == \A p \in DOMAIN evidence : IsSuccess(evidence[p])
               NoSuccess == \A p \in DOMAIN evidence : ~IsSuccess(evidence[p])
           IN  /\ AllSuccesses \/ NoSuccess
               /\ NonSuccesses # {} => NoSuccess
               /\ op = "all_ok" => NoSuccess
               /\ (op = "reduce_with_equality" /\ NonSuccesses = {}) => AllSuccesses
               /\ op = "reduce_with_min_by_key" => NoSuccess

\* A success between a JSON-RPC error and a transport failure: the evidence
\* of all_ok holds the two errors and not the success.
C32_Witness ==
    /\ Reduced("all_ok")
    /\ DOMAIN Outcome = {1, 2, 3}
    /\ Outcome[1].tag = "Error"
    /\ IsSuccess(Outcome[2])
    /\ Outcome[3].tag = "HttpOutcallError"
    /\ verdict.tag = "InconsistentResults"
    /\ DOMAIN verdict.results = {1, 3}

-----------------------------------------------------------------------------
(* The providers of the selected network. *)

\* The list the directory holds for the network of the client, and the list
\* it holds for the other network.
OwnList ==
    IF chain = "Mainnet" THEN provider_lists.Mainnet ELSE provider_lists.Sepolia

OtherList ==
    IF chain = "Mainnet" THEN provider_lists.Sepolia ELSE provider_lists.Mainnet

\* C33: a client bound to one network invokes providers of that network
\* only: in every operation every provider called and every key of the
\* resulting outcome set is in the provider list of the selected network and
\* not in the list of the other network.
C33_OnlyProvidersOfSelectedNetwork ==
    /\ \A i \in DOMAIN invoked :
          invoked[i] \in Range(OwnList) /\ invoked[i] \notin Range(OtherList)
    /\ results # None
          => /\ DOMAIN results.results \subseteq Range(OwnList)
             /\ DOMAIN results.results \cap Range(OtherList) = {}
    /\ (pc = "returned" /\ verdict.tag \in {"MultiCallResults", "InconsistentResults"})
          => DOMAIN verdict.results \subseteq Range(OwnList)

\* A parallel operation of a client of Sepolia has returned with the outcome
\* set of the two providers of Sepolia.
C33_Witness ==
    /\ chain = "Sepolia"
    /\ ParallelReturned
    /\ provider_lists.Mainnet # << >>
    /\ invoked = provider_lists.Sepolia
    /\ DOMAIN results.results = {4, 5}

====
